---- MODULE Spec2Model ----
(***************************************************************************)
(* RAL-Sponsors: the CSV generator (generate_sponsors.py) and the API      *)
(* fetcher (fetch_from_api.py) as state machines.                          *)
(*                                                                         *)
(* A Python str is a sequence of characters; a character is a one-token    *)
(* TLA+ string.  CJK characters are written by their pinyin token ("ai" is *)
(* U+7231), control and astral characters by a name ("NUL", "EMOJI").      *)
(* A float amount is held in hundredths (Unit), which is exact for the     *)
(* decimal inputs with at most two fraction digits used here.              *)
(***************************************************************************)
EXTENDS Integers, Sequences, FiniteSets

VARIABLES
    pc,           \* position of the running main() / function under check
    argv_ok,      \* generate_sponsors.main: a CSV path was given (len(sys.argv) >= 2)
    readable,     \* parse_csv: some encoding could open the file
    lines,        \* parse_csv: lines[1:], each the fields safe_get extracts
    idx,          \* parse_csv: index of the next data row in lines[1:]
    sponsors,     \* parse_csv: the aggregate dict, in insertion order
    config,       \* fetch_from_api: content of config.ini
    page,         \* fetch_sponsors: page
    all_sponsors, \* fetch_sponsors: all_sponsors
    requests,     \* pages requested so far (requests.post calls)
    responses,    \* the server's answers, one per request
    result,       \* the document's "sponsors" list built by the run
    written,      \* the output JSON file has been written
    amount,       \* classifier input
    tier_id       \* classifier output

vars == <<pc, argv_ok, readable, lines, idx, sponsors, config, page,
          all_sponsors, requests, responses, result, written, amount, tier_id>>

-----------------------------------------------------------------------------
(* Bounds *)

MaxRows == 3
MaxPages == 3
MaxAmount == 25000

-----------------------------------------------------------------------------
(* Strings *)

Digits == {"0", "1", "2", "3", "4", "5", "6", "7", "8", "9"}

DigitVal(c) ==
    CASE c = "0" -> 0 [] c = "1" -> 1 [] c = "2" -> 2 [] c = "3" -> 3
      [] c = "4" -> 4 [] c = "5" -> 5 [] c = "6" -> 6 [] c = "7" -> 7
      [] c = "8" -> 8 [] c = "9" -> 9

\* ord(c) for the characters that dates are made of
Ord(c) ==
    CASE c \in Digits -> 48 + DigitVal(c)
      [] c = " " -> 32
      [] c = "-" -> 45
      [] c = "/" -> 47
      [] c = ":" -> 58
      [] OTHER -> 120

\* s[:n]
Take(s, n) == SubSeq(s, 1, IF Len(s) < n THEN Len(s) ELSE n)

\* s.startswith(p)
StartsWith(s, p) == Len(s) >= Len(p) /\ SubSeq(s, 1, Len(p)) = p

\* p in s
Contains(s, p) ==
    \E i \in 1..(Len(s) + 1) : i + Len(p) - 1 <= Len(s) /\ SubSeq(s, i, i + Len(p) - 1) = p

\* a < b on str: the first differing character decides, a proper prefix is smaller
StrLess(a, b) ==
    \E i \in 1..(Len(b)) :
        /\ \A j \in 1..(i - 1) : j <= Len(a) /\ a[j] = b[j]
        /\ \/ i = Len(a) + 1
           \/ i <= Len(a) /\ Ord(a[i]) < Ord(b[i])

\* ''.join(c for c in s if c in keep)
RECURSIVE Filter(_, _)
Filter(s, keep) ==
    IF s = <<>> THEN <<>>
    ELSE IF Len(s) = 1 THEN (IF s[1] \in keep THEN s ELSE <<>>)
    ELSE LET h == Len(s) \div 2
         IN Filter(SubSeq(s, 1, h), keep) \o Filter(SubSeq(s, h + 1, Len(s)), keep)

\* c * n
Rep(c, n) == [i \in 1..n |-> c]

-----------------------------------------------------------------------------
(* Tiers and the classifier *)

Unit == 100

TIERS == <<
    [id |-> "galaxy_guardian",  order |-> 100, minAmount |-> 200],
    [id |-> "starlight_patron", order |-> 80,  minAmount |-> 100],
    [id |-> "cosmic_supporter", order |-> 60,  minAmount |-> 50],
    [id |-> "beta_scout",       order |-> 40,  minAmount |-> 18],
    [id |-> "early_supporter",  order |-> 20,  minAmount |-> 5] >>

\* the scan of get_tier_id from table position i on
RECURSIVE TierScan(_, _)
TierScan(total_amount, i) ==
    IF i > Len(TIERS) THEN "early_supporter"
    ELSE IF total_amount >= TIERS[i].minAmount * Unit THEN TIERS[i].id
    ELSE TierScan(total_amount, i + 1)

RECURSIVE TierScanStrict(_, _)
TierScanStrict(total_amount, i) ==
    IF i > Len(TIERS) THEN "early_supporter"
    ELSE IF total_amount > TIERS[i].minAmount * Unit THEN TIERS[i].id
    ELSE TierScanStrict(total_amount, i + 1)

get_tier_id_strict(total_amount) == TierScanStrict(total_amount, 1)

get_tier_id(total_amount) == TierScan(total_amount, 1)

\* next(t['order'] for t in TIERS if t['id'] == tid, 0)
RECURSIVE OrderScan(_, _)
OrderScan(tid, i) ==
    IF i > Len(TIERS) THEN 0
    ELSE IF TIERS[i].id = tid THEN TIERS[i].order
    ELSE OrderScan(tid, i + 1)

TierOrder(tid) == OrderScan(tid, 1)

-----------------------------------------------------------------------------
(* The classifier alone *)

NoConfig == [exists |-> FALSE, has_keys |-> FALSE, user_id |-> <<>>, token |-> <<>>]

Idle ==
    /\ argv_ok = FALSE /\ readable = FALSE /\ lines = <<>> /\ idx = 1
    /\ sponsors = <<>> /\ config = NoConfig
    /\ page = 1 /\ all_sponsors = <<>> /\ requests = <<>> /\ responses = <<>>
    /\ result = <<>> /\ written = FALSE

InitTier ==
    /\ Idle
    /\ pc = "classify"
    /\ amount \in 0..MaxAmount
    /\ tier_id = ""

Classify ==
    /\ pc = "classify"
    /\ tier_id' = get_tier_id(amount)
    /\ pc' = "classified"
    /\ UNCHANGED <<argv_ok, readable, lines, idx, sponsors, config, page,
                   all_sponsors, requests, responses, result, written, amount>>

NextTier == Classify

SpecTier == InitTier /\ [][NextTier]_vars

-----------------------------------------------------------------------------
(* C1 *)

TiersWithId(tid) == {i \in 1..Len(TIERS) : TIERS[i].id = tid}

Qualifies(i, a) == TIERS[i].minAmount * Unit <= a

HighestQualifying(tid, a) ==
    /\ Cardinality(TiersWithId(tid)) = 1
    /\ \A i \in TiersWithId(tid) :
        /\ Qualifies(i, a)
        /\ \A j \in 1..Len(TIERS) :
            TIERS[j].minAmount > TIERS[i].minAmount => ~Qualifies(j, a)

\* C1 as stated: for every amount >= 0 the classifier's answer is the id of exactly
\* one tier, whose minAmount is <= the amount, and no tier with a higher minAmount
\* qualifies.
C1_AsStated == pc = "classified" => HighestQualifying(tier_id, amount)

\* C1 amended: the answer is always the id of exactly one tier; it is the highest
\* qualifying tier when the amount reaches the lowest minAmount (5), and it is
\* early_supporter, whose minAmount the amount does not reach, below that.
C1_Classifier ==
    pc = "classified" =>
        /\ Cardinality(TiersWithId(tier_id)) = 1
        /\ amount >= 5 * Unit => HighestQualifying(tier_id, amount)
        /\ amount < 5 * Unit => tier_id = "early_supporter"

\* 18 is classified beta_scout, at its threshold
C1_Witness == pc = "classified" /\ amount = 18 * Unit /\ tier_id = "beta_scout"

-----------------------------------------------------------------------------
(* generate_sponsors.py: parse_csv *)

Hex == Digits \cup {"a", "b", "c", "d", "e", "f"}

\* the longest run of characters of `set` starting at s[i]
RECURSIVE Run(_, _, _)
Run(s, i, set) ==
    IF i <= Len(s) /\ s[i] \in set THEN <<s[i]>> \o Run(s, i + 1, set) ELSE <<>>

\* re.search(r'/u/([a-f0-9]+)', url): the leftmost match, its group, or ""
UserIdMatches(url) ==
    {i \in 1..Len(url) :
        /\ i + 3 <= Len(url)
        /\ SubSeq(url, i, i + 2) = <<"/", "u", "/">>
        /\ url[i + 3] \in Hex}

extract_user_id_from_url(url) ==
    IF UserIdMatches(url) = {} THEN <<>>
    ELSE LET i == CHOOSE k \in UserIdMatches(url) : \A m \in UserIdMatches(url) : k <= m
         IN Run(url, i + 3, Hex)

\* re.sub(r'[^\d.]', '', amount_str) or "0"
CleanAmount(amount_str) ==
    LET kept == Filter(amount_str, Digits \cup {"."})
    IN IF kept = <<>> THEN <<"0">> ELSE kept

\* float(s) succeeds on digits with at most one point and at least one digit
FloatOk(s) ==
    /\ Cardinality({i \in 1..Len(s) : s[i] = "."}) <= 1
    /\ \E i \in 1..Len(s) : s[i] \in Digits

RECURSIVE IntOf(_)
IntOf(s) == IF s = <<>> THEN 0 ELSE IntOf(SubSeq(s, 1, Len(s) - 1)) * 10 + DigitVal(s[Len(s)])

\* float(s), in hundredths
FloatOf(s) ==
    LET dots == {i \in 1..Len(s) : s[i] = "."}
        dot == IF dots = {} THEN Len(s) + 1 ELSE CHOOSE i \in dots : TRUE
        whole == SubSeq(s, 1, dot - 1)
        frac == Take(SubSeq(s, dot + 1, Len(s)) \o <<"0", "0">>, 2)
    IN IntOf(whole) * Unit + IntOf(frac)

\* the characters bio_clean drops: not c.isprintable(), or ord(c) >= 65536
Unprintable == {"NUL", "TAB", "EMOJI"}

\* ''.join(c for c in s if c not in set)
RECURSIVE Drop(_, _)
Drop(s, set) ==
    IF s = <<>> THEN <<>>
    ELSE IF Len(s) = 1 THEN (IF s[1] \in set THEN <<>> ELSE s)
    ELSE LET h == Len(s) \div 2
         IN Drop(SubSeq(s, 1, h), set) \o Drop(SubSeq(s, h + 1, Len(s)), set)

BioMax == 200

\* re.search(r'(\d{4}-\d{2})', date_str): the leftmost match, or "" for no match
MonthMatches(date_str) ==
    {i \in 1..Len(date_str) :
        /\ i + 6 <= Len(date_str)
        /\ \A k \in 0..3 : date_str[i + k] \in Digits
        /\ date_str[i + 4] = "-"
        /\ \A k \in 5..6 : date_str[i + k] \in Digits}

MonthOf(date_str) ==
    IF MonthMatches(date_str) = {} THEN <<>>
    ELSE LET i == CHOOSE k \in MonthMatches(date_str) : \A m \in MonthMatches(date_str) : k <= m
         IN SubSeq(date_str, i, i + 6)

\* "爱发电用户_"
PlaceholderPrefix == <<"ai", "fa", "dian", "yong", "hu", "_">>

UrlBase == <<"https://afdian.com/u/">>

\* the defaultdict's default value
NewSponsor(user_id) ==
    [id |-> user_id, name |-> <<>>, total_amount |-> 0, bio |-> <<>>,
     join_date |-> <<>>, url |-> <<>>]

Ids(sp) == {sp[i].id : i \in 1..Len(sp)}

\* sponsors[user_id]: the key's position, the dict growing by a default entry
Lookup(sp, user_id) ==
    IF user_id \in Ids(sp) THEN sp ELSE Append(sp, NewSponsor(user_id))

IndexOf(sp, user_id) == CHOOSE i \in 1..Len(sp) : sp[i].id = user_id

NewNameAlways(old, name) == IF name # <<>> THEN name ELSE old

NewName(old, name) ==
    IF name # <<>> /\ (old = <<>> \/ StartsWith(old, PlaceholderPrefix)) THEN name ELSE old

NewBio(old, bio) ==
    IF bio # <<>> /\ Len(bio) > 1
    THEN LET bio_clean == Drop(bio, Unprintable)
         IN IF Len(bio_clean) > Len(old) THEN Take(bio_clean, BioMax) ELSE old
    ELSE old

NewJoinDateLatest(old, date_str) ==
    IF date_str # <<>> /\ MonthOf(date_str) # <<>>
    THEN LET month == MonthOf(date_str)
         IN IF old = <<>> \/ StrLess(old, month) THEN month ELSE old
    ELSE old

NewJoinDate(old, date_str) ==
    IF date_str # <<>> /\ MonthOf(date_str) # <<>>
    THEN LET month == MonthOf(date_str)
         IN IF old = <<>> \/ StrLess(month, old) THEN month ELSE old
    ELSE old

UpdateSponsorOverwrite(sp, user_id, name, amt, bio, date_str) ==
    LET d == IF user_id \in {sp[i].id : i \in 1..Len(sp)} THEN sp
             ELSE Append(sp, [id |-> user_id, name |-> <<>>, total_amount |-> 0,
                              bio |-> <<>>, join_date |-> <<>>, url |-> <<>>])
        i == CHOOSE k \in 1..Len(d) : d[k].id = user_id
        s == d[i]
    IN [d EXCEPT ![i] =
            [id |-> user_id,
             name |-> NewName(s.name, name),
             total_amount |-> amt,
             bio |-> NewBio(s.bio, bio),
             join_date |-> NewJoinDate(s.join_date, date_str),
             url |-> UrlBase \o user_id]]

\* lines 302-323: the update of one aggregate by one row
UpdateSponsor(sp, user_id, name, amt, bio, date_str) ==
    LET d == Lookup(sp, user_id)
        i == IndexOf(d, user_id)
        s == d[i]
    IN [d EXCEPT ![i] =
            [id |-> user_id,
             name |-> NewName(s.name, name),
             total_amount |-> s.total_amount + amt,
             bio |-> NewBio(s.bio, bio),
             join_date |-> NewJoinDate(s.join_date, date_str),
             url |-> UrlBase \o user_id]]

\* the identity check of line 290 left out
FoldRowNoIdCheck(sp, line) ==
    IF line.blank THEN sp
    ELSE LET user_id == extract_user_id_from_url(line.url)
         IN IF ~FloatOk(CleanAmount(line.amount)) THEN sp
            ELSE UpdateSponsor(sp, user_id, line.name,
                               FloatOf(CleanAmount(line.amount)), line.bio, line.date)

\* sponsors[user_id] read before the amount is converted
FoldRowEagerEntry(sp, line) ==
    IF line.blank THEN sp
    ELSE LET user_id == extract_user_id_from_url(line.url)
         IN IF user_id = <<>> THEN sp
            ELSE IF ~FloatOk(CleanAmount(line.amount)) THEN Lookup(sp, user_id)
            ELSE UpdateSponsor(sp, user_id, line.name,
                               FloatOf(CleanAmount(line.amount)), line.bio, line.date)

\* one iteration of the loop over lines[1:] (lines 280-327)
FoldRow(sp, line) ==
    IF line.blank THEN sp
    ELSE LET user_id == extract_user_id_from_url(line.url)
         IN IF user_id = <<>> THEN sp
            ELSE IF ~FloatOk(CleanAmount(line.amount)) THEN sp
            ELSE UpdateSponsor(sp, user_id, line.name,
                               FloatOf(CleanAmount(line.amount)), line.bio, line.date)

\* the whole loop
RECURSIVE FoldRows(_, _)
FoldRows(sp, ls) == IF ls = <<>> THEN sp ELSE FoldRows(FoldRow(sp, ls[1]), Tail(ls))

-----------------------------------------------------------------------------
(* list.sort(key=..., reverse=True) on (key, value) pairs: stable, descending *)

InsertDesc(t, p) ==
    LET k == Cardinality({i \in 1..Len(t) : t[i].key >= p.key})
    IN SubSeq(t, 1, k) \o <<p>> \o SubSeq(t, k + 1, Len(t))

InsertAsc(t, p) ==
    LET k == Cardinality({i \in 1..Len(t) : t[i].key <= p.key})
    IN SubSeq(t, 1, k) \o <<p>> \o SubSeq(t, k + 1, Len(t))

RECURSIVE SortAsc(_)
SortAsc(s) ==
    IF s = <<>> THEN <<>> ELSE InsertAsc(SortAsc(SubSeq(s, 1, Len(s) - 1)), s[Len(s)])

RECURSIVE SortScan(_)
SortScan(s) ==
    IF s = <<>> THEN <<>> ELSE InsertDesc(SortScan(SubSeq(s, 1, Len(s) - 1)), s[Len(s)])

SortDesc(s) == SortScan(s)

Values(s) == [i \in 1..Len(s) |-> s[i].val]

-----------------------------------------------------------------------------
(* generate_sponsors.py: generate_sponsors_json and main *)

\* "匿名支持者_"
AnonSupporter == <<"ni", "ming", "zhi", "chi", "zhe", "_">>

AvatarBase == <<"https://raw.githubusercontent.com/RotatingArtDev/RAL-Sponsors/main/avatars/">>

\* lines 342-358: one sponsor of the document, with its sort key of line 362
CsvSponsor(data) ==
    [key |-> data.total_amount,
     val |-> [id |-> data.id,
              name |-> IF data.name # <<>> THEN data.name
                       ELSE AnonSupporter \o Take(data.id, 5),
              avatarUrl |-> AvatarBase \o Take(data.id, 12) \o <<".png">>,
              bio |-> data.bio,
              tier |-> get_tier_id(data.total_amount),
              joinDate |-> data.join_date,
              website |-> UrlBase \o data.id]]

generate_sponsors_json(sponsors_data) ==
    Values(SortDesc([i \in 1..Len(sponsors_data) |-> CsvSponsor(sponsors_data[i])]))

NeverEmpty(data) == FALSE

\* `if not sponsors_data` (line 393), `if not api_sponsors` (fetch_from_api.py line 193)
NoData(data) == data = <<>>

Row(url, name, amt, bio, date_str) ==
    [blank |-> FALSE, url |-> url, name |-> name, amount |-> amt, bio |-> bio,
     date |-> date_str]

BlankLine == [blank |-> TRUE, url |-> <<>>, name |-> <<>>, amount |-> <<>>,
              bio |-> <<>>, date |-> <<>>]

Files(Rows) == UNION {[1..n -> Rows] : n \in 0..MaxRows}

CsvInit(Rows) ==
    /\ pc = "main"
    /\ argv_ok \in BOOLEAN
    /\ readable \in BOOLEAN
    /\ lines \in Files(Rows)
    /\ (argv_ok /\ readable) \/ lines = <<>>
    /\ idx = 1
    /\ sponsors = <<>>
    /\ config = NoConfig
    /\ page = 1 /\ all_sponsors = <<>> /\ requests = <<>> /\ responses = <<>>
    /\ result = <<>> /\ written = FALSE
    /\ amount = 0 /\ tier_id = ""

ApiIdle == UNCHANGED <<config, page, all_sponsors, requests, responses, amount, tier_id>>

\* main up to the loop of parse_csv: no argument exits, no encoding opening the
\* file makes parse_csv return {}
MainOpen ==
    /\ pc = "main"
    /\ \/ ~argv_ok /\ pc' = "exit"
       \/ argv_ok /\ ~readable /\ pc' = "parsed"
       \/ argv_ok /\ readable /\ pc' = "rows"
    /\ UNCHANGED <<argv_ok, readable, lines, idx, sponsors, result, written>>
    /\ ApiIdle

\* one data row of parse_csv
ParseRow ==
    /\ pc = "rows"
    /\ idx <= Len(lines)
    /\ sponsors' = FoldRow(sponsors, lines[idx])
    /\ idx' = idx + 1
    /\ UNCHANGED <<pc, argv_ok, readable, lines, result, written>>
    /\ ApiIdle

\* parse_csv returns dict(sponsors)
ParseReturn ==
    /\ pc = "rows"
    /\ idx > Len(lines)
    /\ pc' = "parsed"
    /\ UNCHANGED <<argv_ok, readable, lines, idx, sponsors, result, written>>
    /\ ApiIdle

\* main stops on no sponsor, else builds and writes the document
MainWrite ==
    /\ pc = "parsed"
    /\ \/ NoData(sponsors) /\ pc' = "exit" /\ UNCHANGED <<result, written>>
       \/ /\ ~NoData(sponsors)
          /\ result' = generate_sponsors_json(sponsors)
          /\ written' = TRUE
          /\ pc' = "done"
    /\ UNCHANGED <<argv_ok, readable, lines, idx, sponsors>>
    /\ ApiIdle

NextCsv == MainOpen \/ ParseRow \/ ParseReturn \/ MainWrite

-----------------------------------------------------------------------------
(* CSV inputs *)

U1 == <<"/", "u", "/", "a", "b", "1">>
U2 == <<"h", "/", "u", "/", "c", "d", "?", "x">>
U3 == <<"/", "u", "/", "e", "/", "u", "/", "f">>
NoIdUrl == <<"/", "u", "/", "z", "9">>

\* "张三", "爱发电用户_ab12c", "匿名_ab12c"
RealName == <<"zhang", "san">>
AfdianName == PlaceholderPrefix \o <<"a", "b", "1", "2", "c">>
AnonName == <<"ni", "ming", "_", "a", "b", "1", "2", "c">>

E == <<>>

MainRows ==
    { Row(U1, RealName, <<"5">>, E, E),
      Row(U1, E, <<"1", "0">>, E, E),
      Row(U1, E, <<"3">>, E, E),
      Row(U2, E, <<"1", "2", ".", "5", "0">>, E, E),
      Row(U2, E, <<"Y", "1", "0", "0">>, E, E),
      Row(U3, E, <<"2", "5", "0", ".">>, E, E),
      Row(U3, AfdianName, E, E, E),
      Row(NoIdUrl, RealName, <<"5">>, <<"h", "i">>, <<"2", "0", "2", "0", "-", "0", "1">>),
      Row(U1, AnonName, <<"1", ".", "2", ".", "3">>, <<"h", "i">>,
          <<"2", "0", "2", "0", "-", "0", "1">>),
      Row(U2, RealName, <<".">>, <<"h", "i">>, E),
      BlankLine }

-----------------------------------------------------------------------------
(* fetch_from_api.py *)

\* "你的", the text load_config takes for an unfilled value (line 56)
Placeholder == <<"ni", "de">>

\* load_config: (None, None) as none, else (user_id, token)
load_config(c) ==
    IF ~c.exists \/ ~c.has_keys
       \/ Contains(c.user_id, Placeholder) \/ Contains(c.token, Placeholder)
    THEN [none |-> TRUE, user_id |-> <<>>, token |-> <<>>]
    ELSE [none |-> FALSE, user_id |-> c.user_id, token |-> c.token]

\* `if not user_id or not token` (line 184)
NoCredentials(cred) == cred.none \/ cred.user_id = <<>> \/ cred.token = <<>>

LastPageOffByOne(p, total_page) == p > total_page

\* `if page >= total_page` (line 113)
LastPage(p, total_page) == p >= total_page

\* One iteration of the loop of fetch_sponsors on the server's answer r.
\* r.raises: requests.post or response.json() raises; r.tp_ok: total_page is a
\* number (page >= total_page raises TypeError otherwise, after the extend).
FetchStep(all, p, r) ==
    IF r.raises THEN [all |-> all, page |-> p, more |-> FALSE]
    ELSE IF r.ec # 200 THEN [all |-> all, page |-> p, more |-> FALSE]
    ELSE IF r.list = <<>> THEN [all |-> all, page |-> p, more |-> FALSE]
    ELSE IF ~r.tp_ok THEN [all |-> all \o r.list, page |-> p, more |-> FALSE]
    ELSE IF LastPage(p, r.total_page) THEN [all |-> all \o r.list, page |-> p, more |-> FALSE]
    ELSE [all |-> all \o r.list, page |-> p + 1, more |-> TRUE]

DefaultAvatar == <<"https://pic1.afdiancdn.com/default/avatar/avatar-purple.png">>

\* "匿名_"
AnonPrefix == <<"ni", "ming", "_">>

\* lines 137-160: one sponsor of the document, with its sort key of lines 163-165
ApiSponsor(sponsor) ==
    LET tier == get_tier_id(FloatOf(sponsor.all_sum_amount))
    IN [key |-> TierOrder(tier),
        val |-> [id |-> sponsor.user_id,
                 name |-> IF sponsor.has_name THEN sponsor.name
                          ELSE AnonPrefix \o Take(sponsor.user_id, 5),
                 avatarUrl |-> IF sponsor.avatar # <<>> THEN sponsor.avatar
                               ELSE DefaultAvatar,
                 bio |-> <<>>,
                 tier |-> tier,
                 joinDate |-> IF sponsor.first_pay_time # <<>>
                              THEN Take(sponsor.first_pay_time, 7) ELSE <<>>,
                 website |-> UrlBase \o sponsor.user_id]]

\* the loop of process_sponsors: records without a user_id are skipped
RECURSIVE ApiSponsors(_)
ApiSponsors(api_sponsors) ==
    IF api_sponsors = <<>> THEN <<>>
    ELSE (IF api_sponsors[1].user_id = <<>> THEN <<>>
          ELSE <<ApiSponsor(api_sponsors[1])>>) \o ApiSponsors(Tail(api_sponsors))

process_sponsors(api_sponsors) == Values(SortDesc(ApiSponsors(api_sponsors)))

CsvIdle == UNCHANGED <<argv_ok, readable, lines, idx, sponsors, amount, tier_id>>

\* main: load_config and the check of its result
MainLoadConfig ==
    /\ pc = "api_main"
    /\ \/ NoCredentials(load_config(config)) /\ pc' = "api_exit"
       \/ ~NoCredentials(load_config(config)) /\ pc' = "fetch"
    /\ UNCHANGED <<config, page, all_sponsors, requests, responses, result, written>>
    /\ CsvIdle

\* fetch_sponsors: one request and the handling of its answer
FetchPage(r) ==
    /\ pc = "fetch"
    /\ page <= MaxPages
    /\ requests' = Append(requests, page)
    /\ responses' = Append(responses, r)
    /\ all_sponsors' = FetchStep(all_sponsors, page, r).all
    /\ page' = FetchStep(all_sponsors, page, r).page
    /\ pc' = IF FetchStep(all_sponsors, page, r).more THEN "fetch" ELSE "fetched"
    /\ UNCHANGED <<config, result, written>>
    /\ CsvIdle

\* main after fetch_sponsors: stop on no record, else process and write
ApiMainWrite ==
    /\ pc = "fetched"
    /\ \/ NoData(all_sponsors) /\ pc' = "api_exit" /\ UNCHANGED <<result, written>>
       \/ /\ ~NoData(all_sponsors)
          /\ result' = process_sponsors(all_sponsors)
          /\ written' = TRUE
          /\ pc' = "api_done"
    /\ UNCHANGED <<config, page, all_sponsors, requests, responses>>
    /\ CsvIdle

-----------------------------------------------------------------------------
(* API inputs *)

ApiRecord(uid, has_name, name, avatar, sum, first_pay) ==
    [user_id |-> uid, has_name |-> has_name, name |-> name, avatar |-> avatar,
     all_sum_amount |-> sum, first_pay_time |-> first_pay]

RecA == ApiRecord(<<"a", "1">>, TRUE, RealName, <<"pic">>, <<"1", "8", ".", "0", "0">>,
                  <<"2", "0", "2", "4", "-", "0", "3", "-", "1", "5">>)
RecB == ApiRecord(<<"b", "2">>, FALSE, E, E, <<"3", ".", "0", "0">>, E)
RecC == ApiRecord(<<"c", "3">>, TRUE, E, E, <<"2", "5", "0", ".", "0", "0">>, E)
RecD == ApiRecord(<<"d", "4">>, TRUE, RealName, E, <<"1", "0", "0", ".", "0", "0">>, E)
RecNoId == ApiRecord(E, TRUE, RealName, E, <<"5", "0", ".", "0", "0">>, E)

ApiLists == {<<RecA>>, <<RecB, RecC>>, <<RecNoId, RecD>>}

Response(raises, ec, list, tp_ok, total_page) ==
    [raises |-> raises, ec |-> ec, list |-> list, tp_ok |-> tp_ok,
     total_page |-> total_page]

Responses ==
    {Response(TRUE, 0, E, FALSE, 0), Response(FALSE, 400, E, FALSE, 0),
     Response(FALSE, 200, E, TRUE, MaxPages + 1)}
    \cup {Response(FALSE, 200, l, TRUE, n) : l \in ApiLists, n \in 0..(MaxPages + 1)}
    \cup {Response(FALSE, 200, l, FALSE, 0) : l \in ApiLists}

Configs ==
    {[exists |-> e, has_keys |-> e /\ k, user_id |-> u, token |-> t] :
        e \in BOOLEAN, k \in BOOLEAN,
        u \in {E, <<"ni", "de", "I", "D">>, <<"u", "7">>},
        t \in {E, <<"ni", "de", "T">>, <<"k", "9">>}}

InitApi ==
    /\ pc = "api_main"
    /\ config \in Configs
    /\ page = 1 /\ all_sponsors = <<>> /\ requests = <<>> /\ responses = <<>>
    /\ argv_ok = FALSE /\ readable = FALSE /\ lines = <<>> /\ idx = 1 /\ sponsors = <<>>
    /\ result = <<>> /\ written = FALSE
    /\ amount = 0 /\ tier_id = ""

NextApi == MainLoadConfig \/ (\E r \in Responses : FetchPage(r)) \/ ApiMainWrite

-----------------------------------------------------------------------------
(* Specifications *)

Init == CsvInit(MainRows) \/ InitApi

Next == NextCsv \/ NextApi

Spec == Init /\ [][Next]_vars

-----------------------------------------------------------------------------
(* What a row is, for the statements about parse_csv *)

RowId(line) == IF line.blank THEN <<>> ELSE extract_user_id_from_url(line.url)

\* the row reaches the update of its aggregate
RowOk(line) == RowId(line) # <<>> /\ FloatOk(CleanAmount(line.amount))

\* the row has an identity and float() raises on its amount
RowRaises(line) == RowId(line) # <<>> /\ ~FloatOk(CleanAmount(line.amount))

\* the row's URL holds no identity token
RowNoId(line) == ~line.blank /\ RowId(line) = <<>>

\* the rows among the first k that were attributed to identity u
RowsOf(u, k) == {j \in 1..k : RowOk(lines[j]) /\ RowId(lines[j]) = u}

RECURSIVE SumOver(_)
SumOver(js) ==
    IF js = {} THEN 0
    ELSE LET j == CHOOSE x \in js : TRUE
         IN FloatOf(CleanAmount(lines[j].amount)) + SumOver(js \ {j})

InLoop == pc = "rows" /\ idx <= Len(lines)

-----------------------------------------------------------------------------
(* C2 *)

\* C2: after any number of folded rows the map holds exactly one aggregate per
\* identity that occurred in a successfully processed row, and each total_amount is
\* the sum of the amounts of the rows attributed to that identity.
C2_OneAggregateSummed ==
    /\ Ids(sponsors) = {RowId(lines[j]) : j \in {i \in 1..(idx - 1) : RowOk(lines[i])}}
    /\ \A i, j \in 1..Len(sponsors) : sponsors[i].id = sponsors[j].id => i = j
    /\ \A i \in 1..Len(sponsors) :
        sponsors[i].total_amount = SumOver(RowsOf(sponsors[i].id, idx - 1))

\* rows 5, 10, 3 of one identity give 18, tier beta_scout
C2_Witness ==
    /\ pc = "done"
    /\ Len(lines) = 3
    /\ \A j \in 1..3 : RowId(lines[j]) = <<"a", "b", "1">>
    /\ lines[1].amount = <<"5">> /\ lines[2].amount = <<"1", "0">> /\ lines[3].amount = <<"3">>
    /\ Len(sponsors) = 1
    /\ sponsors[1].total_amount = 18 * Unit
    /\ result[1].tier = "beta_scout"

-----------------------------------------------------------------------------
(* C4 *)

\* C4: in the document of both variants the sponsors are in non-increasing tier
\* order: each sponsor's tier 'order' is >= that of the sponsor after it.
C4_SortedByTierRank ==
    written =>
        \A i \in 1..(Len(result) - 1) :
            TierOrder(result[i].tier) >= TierOrder(result[i + 1].tier)

\* an API document of three sponsors that arrived in ascending amount
C4_Witness ==
    /\ pc = "api_done"
    /\ Len(result) >= 3
    /\ TierOrder(ApiSponsor(all_sponsors[1]).val.tier)
         < TierOrder(ApiSponsor(all_sponsors[Len(all_sponsors)]).val.tier)
    /\ TierOrder(result[1].tier) > TierOrder(result[Len(result)].tier)

-----------------------------------------------------------------------------
(* C5 *)

\* C5: a row whose URL yields no identity token leaves the map as it was and the
\* loop goes on to the next row; no aggregate has the empty identity, and every
\* successfully processed row of the file, also after such a row, has its aggregate
\* when parse_csv returns.
C5_NoIdRowDropped ==
    /\ [][(InLoop /\ RowNoId(lines[idx]))
            => (sponsors' = sponsors /\ idx' = idx + 1 /\ pc' = "rows")]_vars
    /\ [](<<>> \notin Ids(sponsors))
    /\ [](pc = "parsed" /\ readable
            => \A j \in 1..Len(lines) : RowOk(lines[j]) => RowId(lines[j]) \in Ids(sponsors))

\* a row without identity was passed and a later row was aggregated
C5_Witness ==
    /\ pc = "parsed"
    /\ Len(lines) = 3
    /\ RowOk(lines[1]) /\ RowNoId(lines[2]) /\ RowOk(lines[3])
    /\ RowId(lines[1]) # RowId(lines[3])
    /\ Len(sponsors) = 2

-----------------------------------------------------------------------------
(* C10 *)

\* C10: a row on which float() raises leaves the aggregate map exactly as it was,
\* and the loop goes on to the next row.
C10_RaisingRowSkipped ==
    [][(InLoop /\ RowRaises(lines[idx]))
          => (sponsors' = sponsors /\ idx' = idx + 1 /\ pc' = "rows")]_vars

\* a raising row of a known identity and one of an unknown identity were passed
C10_Witness ==
    /\ pc = "rows"
    /\ idx = 4
    /\ RowOk(lines[1]) /\ RowRaises(lines[2]) /\ RowRaises(lines[3])
    /\ RowId(lines[2]) = RowId(lines[1]) /\ RowId(lines[3]) # RowId(lines[1])
    /\ Len(sponsors) = 1

-----------------------------------------------------------------------------
(* C6 *)

RECURSIVE Concat(_, _)
Concat(rs, n) == IF n = 0 THEN <<>> ELSE Concat(rs, n - 1) \o rs[n].list

\* the answer to page n lets the loop go on to page n + 1
Continues(r, n) ==
    ~r.raises /\ r.ec = 200 /\ r.list # <<>> /\ r.tp_ok /\ r.total_page > n

\* the page's handling raises after its records were appended: page >= total_page
\* on a total_page that is no number
RaisesLate(r) == ~r.raises /\ r.ec = 200 /\ r.list # <<>> /\ ~r.tp_ok

Returned == pc \in {"fetched", "api_exit", "api_done"} /\ responses # <<>>

PagesInOrder ==
    /\ requests = [i \in 1..Len(requests) |-> i]
    /\ Len(responses) = Len(requests)
    /\ \A i \in 1..(Len(requests) - 1) : Continues(responses[i], i)
    /\ pc = "fetch" /\ responses # <<>> => Continues(responses[Len(responses)], Len(responses))

\* C6 as stated: pages are requested in the order 1, 2, 3, ..., page N+1 only after
\* page N succeeded with a non-empty list and a total page count > N; at the first
\* page that is empty, not a success or that raises, the loop ends and the result is
\* exactly the records of the pages before it, in page order.
C6_AsStated ==
    /\ PagesInOrder
    /\ Returned =>
        LET n == Len(responses)
            last == responses[n]
        IN all_sponsors =
             IF last.raises \/ RaisesLate(last) \/ last.ec # 200 \/ last.list = <<>>
             THEN Concat(responses, n - 1)
             ELSE Concat(responses, n)

\* C6 amended: as stated, except that a page whose handling raises only after its
\* records were appended (for instance a total_page that cannot be compared with
\* the page number) contributes its own records too.
C6_Pagination ==
    /\ PagesInOrder
    /\ Returned =>
        LET n == Len(responses)
            last == responses[n]
        IN all_sponsors =
             IF last.raises \/ last.ec # 200 \/ last.list = <<>>
             THEN Concat(responses, n - 1)
             ELSE Concat(responses, n)

\* two pages were collected and the third raised before its records were read
C6_Witness ==
    /\ pc = "fetched"
    /\ Len(responses) = 3
    /\ responses[3].raises
    /\ all_sponsors = responses[1].list \o responses[2].list
    /\ responses[1].list # responses[2].list

-----------------------------------------------------------------------------
(* C7 *)

\* the pagination of the run ended on a page that raised or was not a success
Aborted ==
    /\ responses # <<>>
    /\ LET last == responses[Len(responses)]
       IN last.raises \/ RaisesLate(last) \/ last.ec # 200

CsvRun == pc \in {"main", "rows", "parsed", "exit", "done"}
ApiRun == pc \in {"api_main", "fetch", "fetched", "api_exit", "api_done"}

\* C7: the output file is written only if at least one sponsor record was obtained
\* (not without arguments, with an unreadable CSV, with missing or placeholder
\* configuration, or with no sponsor parsed or fetched); an API run whose
\* pagination aborted after at least one collected page ends with the file written.
C7_WrittenOnlyWithSponsors ==
    /\ written /\ CsvRun => argv_ok /\ readable /\ sponsors # <<>>
    /\ written /\ ApiRun =>
        /\ config.exists /\ config.has_keys
        /\ ~Contains(config.user_id, Placeholder) /\ ~Contains(config.token, Placeholder)
        /\ all_sponsors # <<>>
    /\ pc = "exit" => ~written /\ (~argv_ok \/ ~readable \/ sponsors = <<>>)
    /\ pc = "api_exit" => ~written
    /\ pc \in {"api_exit", "api_done"} /\ Aborted /\ all_sponsors # <<>> => written

\* the second page was not a success; the first page's records were written
C7_Witness ==
    /\ pc = "api_done"
    /\ written
    /\ Len(responses) = 2
    /\ responses[2].ec = 400
    /\ all_sponsors = responses[1].list

-----------------------------------------------------------------------------
(* The fold under inputs that vary one field: names, bios, dates *)

Five == <<"5">>

\* "2024-03-15"
D1 == <<"2", "0", "2", "4", "-", "0", "3", "-", "1", "5">>
\* "2023-11-02"
D2 == <<"2", "0", "2", "3", "-", "1", "1", "-", "0", "2">>
\* "2024-3-05"
D3 == <<"2", "0", "2", "4", "-", "3", "-", "0", "5">>
\* "on 2022-10-09"
D4 == <<"o", "n", " ", "2", "0", "2", "2", "-", "1", "0", "-", "0", "9">>
\* "1999-01-01"
D5 == <<"1", "9", "9", "9", "-", "0", "1", "-", "0", "1">>
\* "2023-11"
D6 == <<"2", "0", "2", "3", "-", "1", "1">>

NameRows ==
    { Row(U1, E, Five, E, E),
      Row(U1, AfdianName, Five, E, E),
      Row(U1, AnonName, Five, E, E),
      Row(U1, RealName, Five, E, E),
      Row(U1, <<"l", "i">>, <<".">>, E, E),
      Row(U2, AfdianName, Five, E, E) }

InitName == CsvInit(NameRows)

SpecName == InitName /\ [][NextCsv]_vars

BioRows ==
    { Row(U1, E, Five, E, E),
      Row(U1, E, Five, <<"q">>, E),
      Row(U1, E, Five, <<"a", "b">>, E),
      Row(U1, E, Five, <<"NUL", "e", "EMOJI", "f", "g">>, E),
      Row(U1, E, Five, Rep("x", BioMax + 50), E),
      Row(U1, E, Five, Rep("y", BioMax + 100), E),
      Row(U2, E, Five, <<"h", "i">>, E) }

InitBio == CsvInit(BioRows)

SpecBio == InitBio /\ [][NextCsv]_vars

DateRows ==
    { Row(U1, E, Five, E, E),
      Row(U1, E, Five, E, D1),
      Row(U1, E, Five, E, D2),
      Row(U1, E, Five, E, D3),
      Row(U1, E, Five, E, D4),
      Row(U1, E, <<"1", ".", ".">>, E, D5),
      Row(U2, E, Five, E, D6) }

InitDate == CsvInit(DateRows)

SpecDate == InitDate /\ [][NextCsv]_vars

Finished == pc = "parsed" /\ readable

Entry(sp, u) == sp[IndexOf(sp, u)]

-----------------------------------------------------------------------------
(* C3 *)

\* the identity has exactly two contributions, one named a and one named b
TwoNamed(u, a, b) ==
    \E j, k \in RowsOf(u, Len(lines)) :
        /\ RowsOf(u, Len(lines)) = {j, k}
        /\ lines[j].name = a
        /\ lines[k].name = b

IsPlaceholder(name) == StartsWith(name, PlaceholderPrefix)

\* C3 as stated: of two contributions of one identity, one named "匿名_ab12c" and one
\* "张三", the final name is "张三" in both arrival orders.
C3_AsStated ==
    Finished =>
        \A u \in Ids(sponsors) :
            TwoNamed(u, AnonName, RealName) => Entry(sponsors, u).name = RealName

\* C3 amended: the same for the placeholder "爱发电用户_ab12c", names starting with
\* "爱发电用户_" being the only placeholders; a non-empty name that is no placeholder
\* is never replaced, and a placeholder is replaced by the next non-empty name.
C3_PlaceholderSuperseded ==
    /\ [](Finished =>
            \A u \in Ids(sponsors) :
                TwoNamed(u, AfdianName, RealName) => Entry(sponsors, u).name = RealName)
    /\ [][\A i \in 1..Len(sponsors) :
            (sponsors[i].name # <<>> /\ ~IsPlaceholder(sponsors[i].name))
                => sponsors'[i].name = sponsors[i].name]_vars
    /\ [][(/\ InLoop
           /\ RowOk(lines[idx])
           /\ lines[idx].name # <<>>
           /\ RowId(lines[idx]) \in Ids(sponsors)
           /\ IsPlaceholder(Entry(sponsors, RowId(lines[idx])).name))
            => Entry(sponsors', RowId(lines[idx])).name = lines[idx].name]_vars

\* the placeholder came first and the real name replaced it
C3_Witness ==
    /\ Finished
    /\ Len(lines) = 2
    /\ RowsOf(<<"a", "b", "1">>, 2) = {1, 2}
    /\ lines[1].name = AfdianName /\ lines[2].name = RealName
    /\ sponsors[1].name = RealName

-----------------------------------------------------------------------------
(* C8 *)

Perms(n) == {f \in [1..n -> 1..n] : \A i, j \in 1..n : f[i] = f[j] => i = j}

BioOf(sp, u) == IF u \in Ids(sp) THEN Entry(sp, u).bio ELSE <<>>

\* the cleaned bio candidates of the identity's rows
Candidates(u) ==
    {Drop(lines[j].bio, Unprintable) :
        j \in {i \in RowsOf(u, Len(lines)) : Len(lines[i].bio) > 1}}

\* C8 as stated: the final bio is the longest cleaned candidate seen, cut to 200
\* characters (empty without a candidate), and every arrival order of the rows
\* gives the same bio.
C8_AsStated ==
    Finished =>
        \A u \in Ids(sponsors) :
            /\ \/ Candidates(u) = {} /\ Entry(sponsors, u).bio = <<>>
               \/ \E c \in Candidates(u) :
                    /\ \A d \in Candidates(u) : Len(d) <= Len(c)
                    /\ Entry(sponsors, u).bio = Take(c, BioMax)
            /\ \A f \in Perms(Len(lines)) :
                BioOf(FoldRows(<<>>, [i \in 1..Len(lines) |-> lines[f[i]]]), u)
                    = Entry(sponsors, u).bio

-----------------------------------------------------------------------------
(* C9 *)

\* the year-months extracted from the identity's rows among the first k
Months(u, k) ==
    {MonthOf(lines[j].date) : j \in {i \in RowsOf(u, k) : MonthOf(lines[i].date) # <<>>}}

Smallest(S) == CHOOSE m \in S : \A n \in S : m = n \/ StrLess(m, n)

\* C9: each aggregate's join_date is the lexicographically smallest year-month
\* extracted from the date fields of the identity's successfully processed rows,
\* empty only if there is none; once set, it never becomes empty or larger.
C9_EarliestJoinDate ==
    /\ [](\A i \in 1..Len(sponsors) :
            LET S == Months(sponsors[i].id, idx - 1)
            IN sponsors[i].join_date = IF S = {} THEN <<>> ELSE Smallest(S))
    /\ [][\A i \in 1..Len(sponsors) :
            sponsors[i].join_date # <<>>
                => /\ sponsors'[i].join_date # <<>>
                   /\ ~StrLess(sponsors[i].join_date, sponsors'[i].join_date)]_vars

\* a later row brought an earlier month, found in the middle of its date field
C9_Witness ==
    /\ Finished
    /\ Len(lines) = 3
    /\ lines[1].date = D1 /\ lines[2].date = D4 /\ lines[3].date = D2
    /\ sponsors[1].join_date = MonthOf(D4)
    /\ MonthOf(D4) # D4

====
